---- MODULE Spec2Model ----
(***************************************************************************)
(* Model of the Vibe Check backend (FastAPI + PostgreSQL/PostGIS).         *)
(*                                                                         *)
(* The state is the backing store (tables user, report, vibe and their     *)
(* id sequences), the wall clock, the bearer tokens issued so far, the     *)
(* uploaded avatar files, and the last request with its response.  Each    *)
(* action is one HTTP handler, run from dependency resolution to the       *)
(* response.                                                               *)
(*                                                                         *)
(* Conventions.  The clock counts minutes.  HTTP statuses are the numeric  *)
(* codes.  A database NULL / Python None is None for text columns and      *)
(* NULL for id columns.  Session calls are modelled by what the handler    *)
(* asks of the store (select ... where, get, add, delete, commit).         *)
(***************************************************************************)
EXTENDS Integers, Sequences, FiniteSets, TLC

VARIABLES
    users,          \* table "user": set of rows
    reports,        \* table "report": set of rows
    vibes,          \* table "vibe": set of rows
    next_user_id,   \* serial sequence of user.id
    next_report_id, \* serial sequence of report.id
    next_vibe_id,   \* serial sequence of vibe.id
    now,            \* datetime.utcnow(), in minutes
    issued,         \* tokens handed out by /api/auth/login
    uploads,        \* number of files written under static/uploads
    request,        \* the request handled last
    response,       \* its response
    inflight,       \* the requests being handled: each handler's position
    issued_to       \* for the logins followed: the token and the user.id it
                    \* was issued to

vars == <<users, reports, vibes, next_user_id, next_report_id, next_vibe_id,
          now, issued, uploads, request, response, inflight, issued_to>>

store == <<users, reports, vibes>>

-----------------------------------------------------------------------------
(* Bounds of the model                                                     *)

MaxUserId == 2      \* user ids handed out
MaxReportId == 2    \* report ids handed out
MaxVibeId == 1      \* vibe ids handed out
MaxTokens == 2      \* tokens issued
MaxLate == 1        \* minutes the clock is followed after the start and after an expiry
MaxUploads == 1     \* avatar files written
MaxStored == 3      \* rows of the report table a nearby query is tried on

-----------------------------------------------------------------------------
(* Values                                                                  *)

None == "None"
NULL == 0

\* Python values whose type matters to a comparison: an int and the str that
\* a VARCHAR column gives back.
PyInt(n) == [type |-> "int", val |-> ToString(n)]
PyStr(s) == [type |-> "str", val |-> s]

\* Python's  a != b : values of different types are never equal.
PyNe(a, b) == a.type # b.type \/ a.val # b.val

\* What PostgreSQL stores in a VARCHAR column when the bound parameter is a
\* Python int: its decimal text.
IntToVarchar(n) == PyStr(ToString(n))

Max(S) == CHOOSE x \in S : \A y \in S : y <= x

Abs(x) == IF x < 0 THEN -x ELSE x

-----------------------------------------------------------------------------
(* Credential and token service: app/core/security.py                      *)

SECRET_KEY == "CHANGE_ME_TO_REAL_SECRET"

ACCESS_TOKEN_EXPIRE_MINUTES == 60 * 24 * 7

\* pwd_context.hash: a self-describing bcrypt_sha256 hash of the password
\* (the salt plays no part in verification and is left out).
hash_password(password) == [scheme |-> "bcrypt_sha256", text |-> password]

\* A password_hash column filled with text that is no hash at all.
NotAHash(text) == [scheme |-> None, text |-> text]

\* pwd_context.verify: identifies the scheme of the stored value, then
\* compares; a value no configured scheme identifies makes it raise.
verify_password(plain_password, hashed_password) ==
    IF hashed_password.scheme = "bcrypt_sha256"
    THEN [raised |-> None, value |-> hashed_password.text = plain_password]
    ELSE [raised |-> "UnknownHashError", value |-> FALSE]

\* What can arrive in the Authorization header.
NoToken == [kind |-> "none", sub |-> None, exp |-> 0, key |-> None]
Garbage == [kind |-> "garbage", sub |-> None, exp |-> 0, key |-> None]

\* create_access_token at clock t; expires_delta = NULL takes the default.
create_access_token(sub, expires_delta, t) ==
    LET expire == IF expires_delta # NULL
                  THEN t + expires_delta
                  ELSE t + ACCESS_TOKEN_EXPIRE_MINUTES
    IN  [kind |-> "jwt", sub |-> sub, exp |-> expire, key |-> SECRET_KEY]

\* Expired with the expiry claim not verified
ExpiredNever(token, t) == FALSE

\* jwt.decode's verdict on the expiry claim at clock t.
Expired(token, t) == token.exp < t

\* decode_access_token at clock t: the payload, or the JWTError that
\* jwt.decode raises and the function re-raises.
decode_access_token(token, t) ==
    IF \/ token.kind # "jwt"
       \/ token.key # SECRET_KEY
       \/ Expired(token, t)
    THEN [raised |-> "JWTError", sub |-> None]
    ELSE [raised |-> None, sub |-> token.sub]

-----------------------------------------------------------------------------
(* Identity resolution: app/dependencies/auth_user.py, app/routers/auth.py *)

NoUser == [id |-> NULL, username |-> None, email |-> None,
           password_hash |-> NotAHash(None), name |-> None,
           avatar_url |-> None, bio |-> None]

\* select(User).where(User.username == username) ... .first()
UserByName(U, username) ==
    IF \E u \in U : u.username = username
    THEN CHOOSE u \in U : u.username = username
    ELSE NoUser

\* session.get(User, user_id)
UserById(U, user_id) ==
    IF \E u \in U : u.id = user_id
    THEN CHOOSE u \in U : u.id = user_id
    ELSE NoUser

\* get_current_user answering 401 when the subject is not a user
get_current_user_401_when_gone(token, U, t) ==
    IF token.kind = "none" THEN [status |-> 401, user |-> NoUser]
    ELSE LET payload == decode_access_token(token, t) IN
         IF payload.raised # None THEN [status |-> 500, user |-> NoUser]
         ELSE IF payload.sub = None THEN [status |-> 401, user |-> NoUser]
         ELSE LET user == UserByName(U, payload.sub) IN
              IF user = NoUser THEN [status |-> 401, user |-> NoUser]
              ELSE [status |-> 200, user |-> user]

\* The dependency get_current_user, as the client sees it: status 200 and
\* the user, or the status of the failure.  OAuth2PasswordBearer answers a
\* missing header with 401; an exception no handler catches is answered 500.
get_current_user(token, U, t) ==
    IF token.kind = "none" THEN [status |-> 401, user |-> NoUser]
    ELSE LET payload == decode_access_token(token, t) IN
         IF payload.raised # None THEN [status |-> 500, user |-> NoUser]
         ELSE IF payload.sub = None THEN [status |-> 401, user |-> NoUser]
         ELSE LET user == UserByName(U, payload.sub) IN
              IF user = NoUser THEN [status |-> 404, user |-> NoUser]
              ELSE [status |-> 200, user |-> user]

\* GET /api/auth/me's own get_current_user (app/routers/auth.py), which
\* PUT /api/auth/me takes as its dependency: the same steps.
auth_get_current_user(token, U, t) ==
    IF token.kind = "none" THEN [status |-> 401, user |-> NoUser]
    ELSE LET payload == decode_access_token(token, t) IN
         IF payload.raised # None THEN [status |-> 500, user |-> NoUser]
         ELSE IF payload.sub = None THEN [status |-> 401, user |-> NoUser]
         ELSE LET user == UserByName(U, payload.sub) IN
              IF user = NoUser THEN [status |-> 404, user |-> NoUser]
              ELSE [status |-> 200, user |-> user]

-----------------------------------------------------------------------------
(* Requests the model tries                                                *)

Usernames == {"alice", "bob"}
Passwords == {"secret1", "short"}
Emails == {None, "a@x.io"}

\* UserCreate.password: Field(..., min_length=6)
PasswordMinLength == 6
PasswordLength(password) == IF password = "short" THEN 5 ELSE 7

\* Bodies of POST /api/auth/register and POST /api/users/
UserCreateBodies ==
    {[username |-> u, password |-> p, email |-> e, name |-> None,
      avatar_url |-> None, bio |-> None] :
        u \in Usernames, p \in Passwords, e \in Emails}

\* Bodies of PUT /api/users/{id}: the fields the client set (exclude_unset)
Unset == "Unset"
NothingSet == [username |-> Unset, email |-> Unset, name |-> Unset,
               bio |-> Unset, avatar_url |-> Unset]
UserUpdateBodies ==
    {NothingSet,
     [NothingSet EXCEPT !.username = "bob"],
     [NothingSet EXCEPT !.username = "alice"],
     [NothingSet EXCEPT !.name = "Al"],
     [NothingSet EXCEPT !.email = "a@x.io"]}

\* Tokens a client can present at clock t: none, garbage, one signed with
\* another key, or one that login issued.
Forged(sub, t) == [kind |-> "jwt", sub |-> sub,
                   exp |-> t + ACCESS_TOKEN_EXPIRE_MINUTES, key |-> "other-key"]

Presentable == {NoToken, Garbage, Forged("alice", now)} \cup issued

NoBody == [none |-> TRUE]
NoRows == <<>>

\* fault: the store call of this request that raised ("none" when none did)
Request(op, token, id, body) ==
    [op |-> op, token |-> token, id |-> id, body |-> body, fault |-> "none"]

FaultyRequest(op, token, id, body, fault) ==
    [op |-> op, token |-> token, id |-> id, body |-> body, fault |-> fault]

Response(status, uid, rows) ==
    [status |-> status, uid |-> uid, rows |-> rows]

\* The requests followed step by step, from one store call to the next
Handlers == {"first", "second"}

\* A handler's position: what it was asked, the user the dependency gave
\* it, what its SELECT returned, and the status it answered
NotRunning ==
    [op |-> "none", pc |-> "idle", token |-> NoToken, id |-> NULL,
     body |-> NoBody, current_user |-> NoUser, seen_user |-> NoUser,
     seen_rows |-> {}, status |-> NULL]

-----------------------------------------------------------------------------
(* The store's constraints                                                 *)

\* UniqueUsers without unique=True on user.email
UniqueUsernamesOnly(U) ==
    \A u, v \in U : u.id # v.id => u.username # v.username

\* UniqueUsers without unique=True on user.username
UniqueEmailsOnly(U) ==
    \A u, v \in U :
        u.id # v.id => (u.email # None => u.email # v.email)

\* user.username UNIQUE, user.email UNIQUE (NULLs do not collide)
UniqueUsers(U) ==
    \A u, v \in U :
        u.id # v.id =>
            /\ u.username # v.username
            /\ (u.email # None => u.email # v.email)

-----------------------------------------------------------------------------
(* Init                                                                    *)

Init ==
    /\ users = {}
    /\ reports = {}
    /\ vibes = {}
    /\ next_user_id = 1
    /\ next_report_id = 1
    /\ next_vibe_id = 1
    /\ now = 0
    /\ issued = {}
    /\ uploads = 0
    /\ request = Request("none", NoToken, NULL, NoBody)
    /\ response = Response(200, NULL, NoRows)
    /\ inflight = [h \in Handlers |-> NotRunning]
    /\ issued_to = {}

-----------------------------------------------------------------------------
(* The clock                                                               *)

TickSteps == {1, ACCESS_TOKEN_EXPIRE_MINUTES}

\* The instants the clock is followed through: the first minutes, and the
\* minutes from the expiry of a token issued at the start
Instants ==
    (0..MaxLate) \cup
    (ACCESS_TOKEN_EXPIRE_MINUTES..(ACCESS_TOKEN_EXPIRE_MINUTES + MaxLate))

Idle == Request("none", NoToken, NULL, NoBody)

\* Time passes between requests
Tick(steps) ==
    /\ \E d \in steps :
        /\ now + d \in Instants
        /\ now' = now + d
    /\ request' = Idle
    /\ response' = Response(200, NULL, NoRows)
    /\ UNCHANGED <<users, reports, vibes, next_user_id, next_report_id,
                   next_vibe_id, uploads, inflight,
                   issued, issued_to>>

-----------------------------------------------------------------------------
(* app/routers/auth.py: register, login                                    *)

NewUser(id, body, password_hash) ==
    [id |-> id, username |-> body.username, email |-> body.email,
     password_hash |-> password_hash, name |-> body.name,
     avatar_url |-> body.avatar_url, bio |-> body.bio]

\* POST /api/auth/register
register_user(user_data) ==
    /\ next_user_id <= MaxUserId
    /\ request' = Request("register", NoToken, NULL, user_data)
    /\ IF PasswordLength(user_data.password) < PasswordMinLength
       THEN /\ response' = Response(422, NULL, NoRows)
            /\ UNCHANGED <<users, next_user_id>>
       ELSE IF UserByName(users, user_data.username) # NoUser
       THEN /\ response' = Response(400, NULL, NoRows)
            /\ UNCHANGED <<users, next_user_id>>
       ELSE LET new_user == NewUser(next_user_id, user_data,
                                    hash_password(user_data.password))
            IN  \* the INSERT draws from the sequence even when it fails
                /\ next_user_id' = next_user_id + 1
                /\ IF UniqueUsers(users \cup {new_user})
                   THEN /\ users' = users \cup {new_user}
                        /\ response' = Response(200, new_user.id, NoRows)
                   ELSE /\ users' = users
                        /\ response' = Response(400, NULL, NoRows)
    /\ UNCHANGED <<reports, vibes, next_report_id, next_vibe_id, now, inflight,
                   uploads,
                   issued, issued_to>>

\* POST /api/auth/login
login(username, password) ==
    /\ Cardinality(issued) < MaxTokens
    /\ request' = Request("login", NoToken, NULL,
                          [username |-> username, password |-> password])
    /\ LET user == UserByName(users, username)
           check == verify_password(password, user.password_hash)
       IN  IF user = NoUser
           THEN /\ response' = Response(401, NULL, NoRows)
                /\ issued' = issued
           ELSE IF check.raised # None
           THEN /\ response' = Response(500, NULL, NoRows)
                /\ issued' = issued
           ELSE IF ~check.value
           THEN /\ response' = Response(401, NULL, NoRows)
                /\ issued' = issued
           ELSE /\ response' = Response(200, user.id, NoRows)
                /\ issued' = issued \cup
                     {create_access_token(user.username,
                                          ACCESS_TOKEN_EXPIRE_MINUTES, now)}
    /\ UNCHANGED <<users, reports, vibes, next_user_id, next_report_id,
                   next_vibe_id, now, inflight, uploads>>

-----------------------------------------------------------------------------
(* app/routers/users.py                                                    *)

\* POST /api/users/
create_user(user_data) ==
    /\ next_user_id <= MaxUserId
    /\ request' = Request("create_user", NoToken, NULL, user_data)
    /\ IF PasswordLength(user_data.password) < PasswordMinLength
       THEN /\ response' = Response(422, NULL, NoRows)
            /\ UNCHANGED <<users, next_user_id>>
       ELSE IF UserByName(users, user_data.username) # NoUser
       THEN /\ response' = Response(400, NULL, NoRows)
            /\ UNCHANGED <<users, next_user_id>>
       ELSE LET new_user == NewUser(next_user_id, user_data,
                                    NotAHash(user_data.password))
            IN  /\ next_user_id' = next_user_id + 1
                /\ IF UniqueUsers(users \cup {new_user})
                   THEN /\ users' = users \cup {new_user}
                        /\ response' = Response(200, new_user.id, NoRows)
                   ELSE \* IntegrityError, not caught
                        /\ users' = users
                        /\ response' = Response(500, NULL, NoRows)
    /\ UNCHANGED <<reports, vibes, next_report_id, next_vibe_id, now, inflight,
                   uploads,
                   issued, issued_to>>

\* setattr(user, key, value) for every field the body set
ApplyUpdate(user, update_fields) ==
    [f \in DOMAIN user |->
        IF f \in DOMAIN update_fields /\ update_fields[f] # Unset
        THEN update_fields[f]
        ELSE user[f]]

\* PUT /api/users/{user_id}
update_user(user_id, user_data) ==
    /\ request' = Request("update_user", NoToken, user_id, user_data)
    /\ LET user == UserById(users, user_id) IN
       IF user = NoUser
       THEN /\ response' = Response(404, NULL, NoRows)
            /\ users' = users
       ELSE IF user_data = NothingSet
       THEN /\ response' = Response(400, NULL, NoRows)
            /\ users' = users
       ELSE LET updated == ApplyUpdate(user, user_data)
                U == (users \ {user}) \cup {updated}
            IN  IF UniqueUsers(U)
                THEN /\ users' = U
                     /\ response' = Response(200, user_id, NoRows)
                ELSE \* IntegrityError, not caught
                     /\ users' = users
                     /\ response' = Response(500, NULL, NoRows)
    /\ UNCHANGED <<reports, vibes, next_user_id, next_report_id, next_vibe_id,
                   now, inflight, uploads,
                   issued, issued_to>>

\* DeleteUserRow with the user's reports deleted along with the user
DeleteUserRowCascade(user) ==
    /\ users' = users \ {user}
    /\ vibes' = {IF v.user_id = user.id THEN [v EXCEPT !.user_id = NULL] ELSE v
                 : v \in vibes}
    /\ reports' = {r \in reports : r.user_id # IntToVarchar(user.id)}

\* session.delete(user): the row goes; the ORM sets vibe.user_id of the
\* user's vibes to NULL (relationship User.vibes, no cascade); the report
\* table has no foreign key to user and is not touched.
DeleteUserRow(user) ==
    /\ users' = users \ {user}
    /\ vibes' = {IF v.user_id = user.id THEN [v EXCEPT !.user_id = NULL] ELSE v
                 : v \in vibes}
    /\ reports' = reports

\* DELETE /api/users/{user_id}
delete_user(user_id) ==
    /\ request' = Request("delete_user", NoToken, user_id, NoBody)
    /\ LET user == UserById(users, user_id) IN
       IF user = NoUser
       THEN /\ response' = Response(404, NULL, NoRows)
            /\ UNCHANGED <<users, vibes, reports>>
       ELSE /\ DeleteUserRow(user)
            /\ response' = Response(200, user_id, NoRows)
    /\ UNCHANGED <<next_user_id, next_report_id, next_vibe_id, now, inflight,
                   uploads,
                   issued, issued_to>>

-----------------------------------------------------------------------------
(* app/schemas.py: ReportCreate                                            *)

PlaceNameMaxLength == 100
CrowdStatusMin == 1
CrowdStatusMax == 3

\* Place names, as sequences of character codes
Cafe == <<1>>
Bar == <<2>>
Longest == [i \in 1..PlaceNameMaxLength |-> 1]
TooLong == [i \in 1..(PlaceNameMaxLength + 1) |-> 1]

\* ValidReportCreate with crowd_status: int = Field(..., ge=1), the le=3
\* forgotten
ValidReportCreateNoUpperBound(report) ==
    /\ Len(report.place_name) <= PlaceNameMaxLength
    /\ report.crowd_status >= CrowdStatusMin

\* pydantic's validation of the body of POST /api/reports/
ValidReportCreate(report) ==
    /\ Len(report.place_name) <= PlaceNameMaxLength
    /\ report.crowd_status >= CrowdStatusMin
    /\ report.crowd_status <= CrowdStatusMax

\* Points of a grid of half-kilometre steps
Point(lat, lon) == [lat |-> lat, lon |-> lon]

ReportCreateBody(p, place_name, crowd_status, user_id) ==
    [lat |-> p.lat, lon |-> p.lon, place_name |-> place_name,
     crowd_status |-> crowd_status, decibel_level |-> 55,
     vibe_tags |-> <<"quiet", "wifi">>, user_id |-> user_id]

ReportCreateBodies ==
    {ReportCreateBody(p, n, c, o) :
        p \in {Point(0, 0), Point(2, 0)}, n \in {Cafe, Longest, TooLong},
        c \in {0, 1, 3, 4}, o \in {"1", "2"}}

StoreFaults == {"none", "execute", "commit"}

-----------------------------------------------------------------------------
(* app/routers/reports.py                                                  *)

\* InsertedReport with "user_id": report.user_id, the owner taken from the
\* body
InsertedReportOwnedByBody(id, report, current_user, t) ==
    [id |-> id,
     place_name |-> report.place_name,
     crowd_status |-> report.crowd_status,
     decibel_level |-> report.decibel_level,
     vibe_tags |-> report.vibe_tags,
     user_id |-> PyStr(report.user_id),
     timestamp |-> t,
     location |-> Point(report.lat, report.lon)]

\* The row INSERT INTO report ... RETURNING gives: the owner is the
\* resolved user's id, bound to the VARCHAR column report.user_id.
InsertedReport(id, report, current_user, t) ==
    [id |-> id,
     place_name |-> report.place_name,
     crowd_status |-> report.crowd_status,
     decibel_level |-> report.decibel_level,
     vibe_tags |-> report.vibe_tags,
     user_id |-> IntToVarchar(current_user.id),
     timestamp |-> t,
     location |-> Point(report.lat, report.lon)]

\* POST /api/reports/
submit_report(token, report, fault) ==
    /\ next_report_id <= MaxReportId
    /\ request' = FaultyRequest("submit_report", token, NULL, report, fault)
    /\ LET auth == get_current_user(token, users, now) IN
       IF auth.status # 200
       THEN /\ response' = Response(auth.status, NULL, NoRows)
            /\ UNCHANGED <<reports, next_report_id>>
       ELSE IF ~ValidReportCreate(report)
       THEN /\ response' = Response(422, auth.user.id, NoRows)
            /\ UNCHANGED <<reports, next_report_id>>
       ELSE IF fault # "none"
       THEN /\ response' = Response(500, auth.user.id, NoRows)
            /\ UNCHANGED <<reports, next_report_id>>
       ELSE LET row == InsertedReport(next_report_id, report, auth.user, now)
            IN  /\ reports' = reports \cup {row}
                /\ next_report_id' = next_report_id + 1
                /\ response' = Response(200, auth.user.id, <<row>>)
    /\ UNCHANGED <<users, vibes, next_user_id, next_vibe_id, now, inflight,
                   uploads,
                   issued, issued_to>>

\* NotOwner with the check left out
NotOwnerUnchecked(owner_row, current_user) == FALSE

\* The owner check of delete_report: owner_row["user_id"] != current_user.id
NotOwner(owner_row, current_user) ==
    PyNe(owner_row.user_id, PyInt(current_user.id))

\* SELECT user_id FROM report WHERE id = :rid
ReportById(R, rid) ==
    IF \E r \in R : r.id = rid THEN {CHOOSE r \in R : r.id = rid} ELSE {}

\* DELETE /api/reports/{report_id}
delete_report(token, report_id, fault) ==
    /\ request' = FaultyRequest("delete_report", token, report_id, NoBody, fault)
    /\ LET auth == get_current_user(token, users, now)
           found == ReportById(reports, report_id)
       IN  IF auth.status # 200
           THEN /\ response' = Response(auth.status, NULL, NoRows)
                /\ reports' = reports
           ELSE IF fault = "execute"
           THEN /\ response' = Response(500, auth.user.id, NoRows)
                /\ reports' = reports
           ELSE IF found = {}
           THEN /\ response' = Response(404, auth.user.id, NoRows)
                /\ reports' = reports
           ELSE IF \E owner_row \in found : NotOwner(owner_row, auth.user)
           THEN /\ response' = Response(403, auth.user.id, NoRows)
                /\ reports' = reports
           ELSE IF fault = "commit"
           THEN /\ response' = Response(500, auth.user.id, NoRows)
                /\ reports' = reports
           ELSE /\ response' = Response(200, auth.user.id, NoRows)
                /\ reports' = reports \ found
    /\ UNCHANGED <<users, vibes, next_user_id, next_report_id, next_vibe_id,
                   now, inflight, uploads,
                   issued, issued_to>>

\* PostGIS ST_Distance on geography, in metres, on the half-kilometre grid
ST_Distance(a, b) == 500 * (Abs(a.lat - b.lat) + Abs(a.lon - b.lon))

\* PostGIS ST_DWithin on geography: within the distance, the bound included
ST_DWithin(a, b, radius_meters) == ST_Distance(a, b) <= radius_meters

\* RadiusMeters with the kilometres passed on as metres
RadiusMetersUnscaled(radius_km) == radius_km

\* params["radius_meters"]
RadiusMeters(radius_km) == radius_km * 1000

\* round(distance_km, 2), kept in hundredths of a kilometre
Round2(distance_m) == (distance_m + 5) \div 10

\* The WHERE clause of the nearby query
Matching(R, q, radius_meters) ==
    {r \in R : ST_DWithin(r.location, q, radius_meters)}

\* LexLess for ORDER BY place_name DESC
LexGreater(a, b) ==
    LET n == IF Len(a) < Len(b) THEN Len(a) ELSE Len(b)
        differ == {i \in 1..n : a[i] # b[i]}
    IN  IF differ = {} THEN Len(a) > Len(b)
        ELSE LET i == CHOOSE i \in differ : \A j \in differ : i <= j
             IN  a[i] > b[i]

\* Text order of two place names: decided at the first position where
\* they differ, a proper prefix sorting first
LexLess(a, b) ==
    LET n == IF Len(a) < Len(b) THEN Len(a) ELSE Len(b)
        differ == {i \in 1..n : a[i] # b[i]}
    IN  IF differ = {} THEN Len(a) < Len(b)
        ELSE LET i == CHOOSE i \in differ : \A j \in differ : i <= j
             IN  a[i] < b[i]

\* OrderedBefore with the DESC left off "timestamp"
OrderedBeforeOldestFirst(r, q) ==
    \/ LexLess(r.place_name, q.place_name)
    \/ r.place_name = q.place_name /\ r.timestamp <= q.timestamp

\* ORDER BY place_name, "timestamp" DESC: r sorts no later than q
OrderedBefore(r, q) ==
    \/ LexLess(r.place_name, q.place_name)
    \/ r.place_name = q.place_name /\ r.timestamp >= q.timestamp

\* SELECT DISTINCT ON (place_name): the rows that can come first of their
\* place_name under the ORDER BY (equal timestamps leave the choice open)
FirstOfPlace(M, place_name) ==
    {r \in M : /\ r.place_name = place_name
               /\ \A q \in M : q.place_name = place_name => OrderedBefore(r, q)}

\* One row per place_name, in the order of the ORDER BY
RECURSIVE InPlaceOrder(_)
InPlaceOrder(S) ==
    IF S = {} THEN <<>>
    ELSE LET first == CHOOSE r \in S :
                        \A q \in S \ {r} : LexLess(r.place_name, q.place_name)
         IN  <<first>> \o InPlaceOrder(S \ {first})

\* The results the SELECT can give: each a sequence of stored rows
SelectNearby(R, q, radius_meters) ==
    LET M == Matching(R, q, radius_meters)
        places == {r.place_name : r \in M}
        picks == {f \in [places -> M] : \A p \in places : f[p] \in FirstOfPlace(M, p)}
    IN  {InPlaceOrder({f[p] : p \in places}) : f \in picks}

\* One element of "data" in the response
NearbyRow(r, q) ==
    [id |-> r.id,
     place_name |-> r.place_name,
     crowd_status |-> r.crowd_status,
     decibel_level |-> r.decibel_level,
     vibe_tags |-> r.vibe_tags,
     user_id |-> r.user_id,
     timestamp |-> r.timestamp,
     latitude |-> r.location.lat,
     longitude |-> r.location.lon,
     distance_km |-> Round2(ST_Distance(r.location, q))]

NearbyQueries ==
    {[lat |-> p.lat, lon |-> p.lon, radius_km |-> k] :
        p \in {Point(0, 0), Point(1, 0)}, k \in {0, 1, 2}}

\* GET /api/reports/nearby
get_nearby_reports(query, fault) ==
    /\ request' = FaultyRequest("get_nearby_reports", NoToken, NULL, query, fault)
    /\ IF fault # "none"
       THEN response' = Response(500, NULL, NoRows)
       ELSE \E rows \in SelectNearby(reports, Point(query.lat, query.lon),
                                     RadiusMeters(query.radius_km)) :
                response' = Response(200, NULL,
                                [i \in 1..Len(rows) |->
                                    NearbyRow(rows[i], Point(query.lat, query.lon))])
    /\ UNCHANGED <<users, reports, vibes, next_user_id, next_report_id,
                   next_vibe_id, now, inflight, uploads,
                   issued, issued_to>>

-----------------------------------------------------------------------------
(* app/routers/auth.py: /me                                                *)

\* GET /api/auth/me
get_me(token) ==
    /\ request' = Request("get_me", token, NULL, NoBody)
    /\ LET auth == auth_get_current_user(token, users, now) IN
       response' = Response(auth.status, auth.user.id, NoRows)
    /\ UNCHANGED <<users, reports, vibes, next_user_id, next_report_id,
                   next_vibe_id, now, inflight, uploads,
                   issued, issued_to>>

\* Forms of PUT /api/auth/me: name, bio, and whether a file came with it
ProfileForms ==
    {[name |-> n, bio |-> b, file |-> f] :
        n \in {Unset, "Al"}, b \in {Unset, "hi"}, f \in BOOLEAN}

\* The call of the request that raised: opening the destination file,
\* writing to it, session.commit, or session.refresh after the commit
ProfileFaults == {"none", "open", "write", "commit", "refresh"}

\* UpdateData with  update_data["bio"] = bio  outside its  if
UpdateDataBioAlways(form) ==
    [name |-> form.name,
     bio |-> IF form.bio = Unset THEN None ELSE form.bio,
     avatar_url |-> IF form.file THEN "/static/uploads/f" ELSE Unset]

\* update_data: the fields the form supplied
UpdateData(form) ==
    [name |-> form.name, bio |-> form.bio,
     avatar_url |-> IF form.file THEN "/static/uploads/f" ELSE Unset]

\* PUT /api/auth/me
update_current_user_profile(token, form, fault) ==
    /\ form.file => uploads < MaxUploads
    /\ request' = FaultyRequest("update_me", token, NULL, form, fault)
    /\ LET auth == auth_get_current_user(token, users, now)
           update_data == UpdateData(form)
       IN  IF auth.status # 200
           THEN /\ response' = Response(auth.status, NULL, NoRows)
                /\ UNCHANGED <<users, uploads>>
           ELSE IF form.file /\ fault = "open"
           THEN /\ response' = Response(500, auth.user.id, NoRows)
                /\ UNCHANGED <<users, uploads>>
           ELSE IF form.file /\ fault = "write"
           THEN /\ response' = Response(500, auth.user.id, NoRows)
                /\ uploads' = uploads + 1
                /\ users' = users
           ELSE /\ uploads' = IF form.file THEN uploads + 1 ELSE uploads
                /\ IF \A f \in DOMAIN update_data : update_data[f] = Unset
                   THEN /\ response' = Response(400, auth.user.id, NoRows)
                        /\ users' = users
                   ELSE IF fault = "commit"
                   THEN /\ response' = Response(500, auth.user.id, NoRows)
                        /\ users' = users
                   ELSE /\ users' = (users \ {auth.user})
                                    \cup {ApplyUpdate(auth.user, update_data)}
                        /\ response' = Response(
                              IF fault = "refresh" THEN 500 ELSE 200,
                              auth.user.id, NoRows)
    /\ UNCHANGED <<reports, vibes, next_user_id, next_report_id, next_vibe_id,
                   now, inflight,
                   issued, issued_to>>

-----------------------------------------------------------------------------
(* app/routers/vibes.py                                                    *)

VibeCreateBodies ==
    {[place_name |-> n, decibel_level |-> 55, crowd_status |-> 2,
      vibe_tags |-> <<"quiet">>, user_id |-> o] :
        n \in {Cafe, Bar}, o \in {1, 2}}

VibeById(V, vibe_id) ==
    IF \E v \in V : v.id = vibe_id THEN {CHOOSE v \in V : v.id = vibe_id} ELSE {}

\* VibeNotOwner with the check left out
VibeNotOwnerUnchecked(vibe, current_user) == FALSE

\* The owner check of update_vibe and delete_vibe:
\* vibe.user_id != current_user.id
VibeNotOwner(vibe, current_user) == vibe.user_id # current_user.id

\* POST /api/vibes/
create_vibe(token, vibe_data) ==
    /\ next_vibe_id <= MaxVibeId
    /\ request' = Request("create_vibe", token, NULL, vibe_data)
    /\ LET auth == get_current_user(token, users, now) IN
       IF auth.status # 200
       THEN /\ response' = Response(auth.status, NULL, NoRows)
            /\ UNCHANGED <<vibes, next_vibe_id>>
       ELSE /\ vibes' = vibes \cup
                  {[id |-> next_vibe_id,
                    user_id |-> auth.user.id,
                    place_name |-> vibe_data.place_name,
                    decibel_level |-> vibe_data.decibel_level,
                    crowd_status |-> vibe_data.crowd_status,
                    vibe_tags |-> vibe_data.vibe_tags,
                    timestamp |-> now]}
            /\ next_vibe_id' = next_vibe_id + 1
            /\ response' = Response(200, auth.user.id, NoRows)
    /\ UNCHANGED <<users, reports, next_user_id, next_report_id, now, inflight,
                   uploads,
                   issued, issued_to>>

\* PUT /api/vibes/{vibe_id}
update_vibe(token, vibe_id, vibe_data) ==
    /\ request' = Request("update_vibe", token, vibe_id, vibe_data)
    /\ LET auth == get_current_user(token, users, now)
           found == VibeById(vibes, vibe_id)
       IN  IF auth.status # 200
           THEN /\ response' = Response(auth.status, NULL, NoRows)
                /\ vibes' = vibes
           ELSE IF found = {}
           THEN /\ response' = Response(404, auth.user.id, NoRows)
                /\ vibes' = vibes
           ELSE IF \E vibe \in found : VibeNotOwner(vibe, auth.user)
           THEN /\ response' = Response(403, auth.user.id, NoRows)
                /\ vibes' = vibes
           ELSE /\ vibes' = (vibes \ found) \cup
                      {[vibe EXCEPT !.place_name = vibe_data.place_name,
                                    !.decibel_level = vibe_data.decibel_level,
                                    !.crowd_status = vibe_data.crowd_status,
                                    !.vibe_tags = vibe_data.vibe_tags]
                       : vibe \in found}
                /\ response' = Response(200, auth.user.id, NoRows)
    /\ UNCHANGED <<users, reports, next_user_id, next_report_id, next_vibe_id,
                   now, inflight, uploads,
                   issued, issued_to>>

\* DELETE /api/vibes/{vibe_id}
delete_vibe(token, vibe_id) ==
    /\ request' = Request("delete_vibe", token, vibe_id, NoBody)
    /\ LET auth == get_current_user(token, users, now)
           found == VibeById(vibes, vibe_id)
       IN  IF auth.status # 200
           THEN /\ response' = Response(auth.status, NULL, NoRows)
                /\ vibes' = vibes
           ELSE IF found = {}
           THEN /\ response' = Response(404, auth.user.id, NoRows)
                /\ vibes' = vibes
           ELSE IF \E vibe \in found : VibeNotOwner(vibe, auth.user)
           THEN /\ response' = Response(403, auth.user.id, NoRows)
                /\ vibes' = vibes
           ELSE /\ vibes' = vibes \ found
                /\ response' = Response(200, auth.user.id, NoRows)
    /\ UNCHANGED <<users, reports, next_user_id, next_report_id, next_vibe_id,
                   now, inflight, uploads,
                   issued, issued_to>>

-----------------------------------------------------------------------------
(* Actions: a handler, with its request drawn from a set of requests       *)

Register(bodies) == \E user_data \in bodies : register_user(user_data)

Login(usernames, passwords) ==
    /\ \E u \in usernames, p \in passwords : login(u, p)
    /\ issued_to' = issued_to

\* A login whose token is followed: the token that went out with the 200
\* is noted with the id of the user login had loaded
LoginFollowed(usernames, passwords) ==
    \E u \in usernames, p \in passwords :
        /\ login(u, p)
        /\ issued_to' =
              IF response'.status = 200
              THEN issued_to \cup
                     {[token |-> create_access_token(
                                    u, ACCESS_TOKEN_EXPIRE_MINUTES, now),
                       id |-> response'.uid]}
              ELSE issued_to

CreateUser(bodies) == \E user_data \in bodies : create_user(user_data)

UpdateUser(bodies) ==
    \E id \in 1..MaxUserId, user_data \in bodies : update_user(id, user_data)

DeleteUser == \E id \in 1..MaxUserId : delete_user(id)

SubmitReport(tokens, bodies, faults) ==
    \E token \in tokens, report \in bodies, fault \in faults :
        submit_report(token, report, fault)

DeleteReport(tokens, faults) ==
    \E token \in tokens, id \in 1..MaxReportId, fault \in faults :
        delete_report(token, id, fault)

GetNearby(queries, faults) ==
    \E query \in queries, fault \in faults :
        get_nearby_reports(query, fault)

GetMe(tokens) == \E token \in tokens : get_me(token)

UpdateMe(tokens, forms, faults) ==
    \E token \in tokens, form \in forms, fault \in faults :
        update_current_user_profile(token, form, fault)

CreateVibe(tokens, bodies) ==
    \E token \in tokens, vibe_data \in bodies : create_vibe(token, vibe_data)

UpdateVibe(tokens, bodies) ==
    \E token \in tokens, id \in 1..MaxVibeId, vibe_data \in bodies :
        update_vibe(token, id, vibe_data)

DeleteVibe(tokens) ==
    \E token \in tokens, id \in 1..MaxVibeId : delete_vibe(token, id)

-----------------------------------------------------------------------------
(* The whole API                                                           *)

Next ==
    \/ Tick(TickSteps)
    \/ Register(UserCreateBodies)
    \/ Login(Usernames, Passwords)
    \/ GetMe(Presentable)
    \/ UpdateMe(Presentable, ProfileForms, ProfileFaults)
    \/ CreateUser(UserCreateBodies)
    \/ UpdateUser(UserUpdateBodies)
    \/ DeleteUser
    \/ SubmitReport(Presentable, ReportCreateBodies, StoreFaults)
    \/ GetNearby(NearbyQueries, {"none", "execute"})
    \/ DeleteReport(Presentable, StoreFaults)
    \/ CreateVibe(Presentable, VibeCreateBodies)
    \/ UpdateVibe(Presentable, VibeCreateBodies)
    \/ DeleteVibe(Presentable)

Spec == Init /\ [][Next]_vars

-----------------------------------------------------------------------------
(* Reports and their owners: users come and go, reports are submitted and  *)
(* deleted; the clock stands still.                                        *)

PlainUsers ==
    {[username |-> u, password |-> "secret1", email |-> None, name |-> None,
      avatar_url |-> None, bio |-> None] : u \in Usernames}

Renames == {NothingSet, [NothingSet EXCEPT !.username = "bob"]}

SomeReports ==
    {ReportCreateBody(Point(0, 0), Cafe, 1, "1"),
     ReportCreateBody(Point(0, 0), Cafe, 1, "2"),
     ReportCreateBody(Point(2, 0), Longest, 3, "2"),
     ReportCreateBody(Point(0, 0), Cafe, 0, "1"),
     ReportCreateBody(Point(0, 0), Cafe, 4, "1"),
     ReportCreateBody(Point(0, 0), TooLong, 1, "1")}

Bearers == {NoToken} \cup issued

\* Users made through POST /api/users/ (they cannot log in)
OnlyBob == {u \in PlainUsers : u.username = "bob"}

NextReports ==
    \/ Register(PlainUsers)
    \/ CreateUser(OnlyBob)
    \/ UpdateUser(Renames)
    \/ DeleteUser
    \/ Login(Usernames, {"secret1"})
    \/ SubmitReport(Bearers, SomeReports, {"none"})
    \/ DeleteReport(Bearers, {"none", "execute"})

SpecReports == Init /\ [][NextReports]_vars

(* The requester of the last request, when identity resolution gave one *)
Resolved == response.uid # NULL

\* C3 (as claimed): a user who deletes a report they submitted, with their
\* own valid token and the store answering, gets 200 -- so no such request
\* ends with the report still stored.
C3_OwnerDeleteSucceeds ==
    (/\ request.op = "delete_report"
     /\ request.fault = "none"
     /\ Resolved
     /\ \E r \in reports : /\ r.id = request.id
                           /\ r.user_id.val = ToString(response.uid))
        => response.status = 200

\* C4: a delete by an authenticated user answers 404 when no report has the
\* id and 403 when the report is owned by somebody else, the 404 whatever
\* the requester; after either answer the stored reports are as before.
C4_DeleteFailures ==
    [][(/\ request'.op = "delete_report"
        /\ request'.fault # "execute"
        /\ response'.uid # NULL)
          => /\ ReportById(reports, request'.id) = {}
                    => response'.status = 404
             /\ (\E r \in reports : /\ r.id = request'.id
                                    /\ r.user_id # IntToVarchar(response'.uid))
                    => response'.status = 403
             /\ response'.status \in {403, 404} => reports' = reports]_vars

C4_Witness ==
    /\ request.op = "delete_report"
    /\ response.status = 403
    /\ \E r \in reports : /\ r.id = request.id
                          /\ r.user_id # IntToVarchar(response.uid)
    /\ \E r \in reports : r.id # request.id

\* C5: the owner stored by a successful submit is the id of the user the
\* bearer token's subject names, whatever user_id the body carries.
C5_OwnerFromToken ==
    (request.op = "submit_report" /\ response.status = 200)
        => /\ Len(response.rows) = 1
           /\ response.rows[1] \in reports
           /\ response.rows[1].user_id =
                 IntToVarchar(UserByName(users, request.token.sub).id)

C5_Witness ==
    /\ request.op = "submit_report"
    /\ response.status = 200
    /\ request.body.user_id # response.rows[1].user_id.val

\* C6: a submit whose crowd_status is outside 1..3 or whose place_name is
\* longer than 100 characters stores nothing, and every stored report has
\* crowd_status in 1..3 and a place_name of at most 100 characters.
C6_InvalidSubmitRejected ==
    /\ [][(request'.op = "submit_report" /\ ~ValidReportCreate(request'.body))
            => /\ response'.status # 200
               /\ reports' = reports
               /\ next_report_id' = next_report_id]_vars
    /\ [](\A r \in reports : /\ r.crowd_status \in CrowdStatusMin..CrowdStatusMax
                             /\ Len(r.place_name) <= PlaceNameMaxLength)

C6_Witness ==
    /\ request.op = "submit_report"
    /\ request.body.crowd_status > CrowdStatusMax
    /\ response.status = 422
    /\ reports # {}

\* C7 (as claimed): the owner of every stored report is an existing user.
C7_OwnerExists ==
    \A r \in reports : \E u \in users : r.user_id = IntToVarchar(u.id)

\* C13 (as claimed): a login answers 200, with a token for the username,
\* when the password is the one the stored user of that name was created
\* with, and 401 otherwise.
C13_LoginDecides ==
    request.op = "login" =>
        LET user == UserByName(users, request.body.username) IN
        IF user # NoUser /\ user.password_hash.text = request.body.password
        THEN /\ response.status = 200
             /\ \E token \in issued : token.sub = request.body.username
        ELSE response.status = 401

\* C14 (as claimed): every stored password_hash is a hash of a password,
\* never the password itself.
C14_NoPlaintext ==
    \A u \in users :
        /\ \E p \in Passwords : u.password_hash = hash_password(p)
        /\ \A p \in Passwords : u.password_hash # NotAHash(p)

\* C15 (as claimed): verify_password raises for no password and no stored
\* password_hash, and gives FALSE for one that is no hash.
C15_VerifyNeverRaises ==
    \A u \in users, p \in Passwords :
        LET verdict == verify_password(p, u.password_hash) IN
        /\ verdict.raised = None
        /\ u.password_hash.scheme = None => verdict.value = FALSE

-----------------------------------------------------------------------------
(* The nearby query, tried on every report table of up to MaxStored rows   *)
(* that submits by one user leave behind.                                  *)

Alice == [id |-> 1, username |-> "alice", email |-> None,
          password_hash |-> hash_password("secret1"), name |-> None,
          avatar_url |-> None, bio |-> None]

StoredPlaces == {Cafe, Bar}
StoredPoints == {Point(0, 0), Point(2, 0), Point(1, 2)}
StoredTimes == {0, 1}

\* The tables of n rows: ids in the order of insertion, timestamps with them
ReportTables(n) ==
    LET shapes == [place_name : StoredPlaces, p : StoredPoints,
                   t : StoredTimes]
        tables == {f \in [1..n -> shapes] :
                      \A i, j \in 1..n : i < j => f[i].t <= f[j].t}
    IN  {{InsertedReport(i, ReportCreateBody(f[i].p, f[i].place_name, 2, "1"),
                         Alice, f[i].t) : i \in 1..n} : f \in tables}

InitNearby ==
    /\ users = {Alice}
    /\ \E n \in 0..MaxStored :
        /\ reports \in ReportTables(n)
        /\ next_report_id = n + 1
    /\ vibes = {}
    /\ next_user_id = 2
    /\ next_vibe_id = 1
    /\ now = Max(StoredTimes)
    /\ issued = {}
    /\ uploads = 0
    /\ request = Idle
    /\ response = Response(200, NULL, NoRows)
    /\ inflight = [h \in Handlers |-> NotRunning]
    /\ issued_to = {}

\* Queries from a point where reports are stored, with every radius, and
\* from a point between them
TriedQueries == {q \in NearbyQueries : q.lat = 0 \/ q.radius_km = 1}

NextNearby == GetNearby(TriedQueries, {"none", "execute"})

SpecNearby == InitNearby /\ [][NextNearby]_vars

\* The last request was a nearby query that was answered
Answered == request.op = "get_nearby_reports" /\ response.status = 200

QueryPoint == Point(request.body.lat, request.body.lon)

\* The stored reports no farther from the query point than radius_km
InRadius ==
    {r \in reports :
        ST_Distance(r.location, QueryPoint) <= request.body.radius_km * 1000}

\* C1: a nearby query returns one row for each place_name that has a report
\* within the radius, no place_name twice, and the row of a place_name is
\* one of that place's reports within the radius with the latest timestamp.
C1_LatestPerPlace ==
    Answered =>
        LET rows == response.rows IN
        /\ \A i, j \in 1..Len(rows) :
                i # j => rows[i].place_name # rows[j].place_name
        /\ {rows[i].place_name : i \in 1..Len(rows)}
              = {r.place_name : r \in InRadius}
        /\ \A i \in 1..Len(rows) :
              \E r \in InRadius :
                  /\ r.id = rows[i].id
                  /\ r.place_name = rows[i].place_name
                  /\ r.timestamp = rows[i].timestamp
                  /\ \A o \in InRadius :
                        o.place_name = r.place_name => o.timestamp <= r.timestamp

C1_Witness ==
    /\ Answered
    /\ Len(response.rows) = 2
    /\ \E i \in 1..Len(response.rows) :
          \E o \in InRadius : /\ o.place_name = response.rows[i].place_name
                              /\ o.timestamp < response.rows[i].timestamp

\* C2: a nearby query returns no report farther from the query point than
\* radius_km * 1000 metres, and a report at exactly that distance is
\* returned unless a report of the same place, no older, is.
C2_WithinRadius ==
    Answered =>
        LET rows == response.rows
            radius_meters == request.body.radius_km * 1000
        IN
        /\ \A i \in 1..Len(rows) :
              /\ ST_Distance(Point(rows[i].latitude, rows[i].longitude),
                             QueryPoint) <= radius_meters
              /\ rows[i].distance_km * 10 <= radius_meters
        /\ \A r \in reports :
              ST_Distance(r.location, QueryPoint) = radius_meters
                  => \E i \in 1..Len(rows) :
                        /\ rows[i].place_name = r.place_name
                        /\ rows[i].id = r.id \/ rows[i].timestamp >= r.timestamp

C2_Witness ==
    /\ Answered
    /\ request.body.radius_km > 0
    /\ \E i \in 1..Len(response.rows) :
          /\ response.rows[i].distance_km = request.body.radius_km * 100
          /\ \E r \in reports : /\ r.id = response.rows[i].id
                                /\ ST_Distance(r.location, QueryPoint)
                                      = request.body.radius_km * 1000
    /\ \E r \in reports :
          ST_Distance(r.location, QueryPoint) > request.body.radius_km * 1000

SortsBefore(a, b) ==
    \/ \E i \in 1..Len(a) :
          /\ i <= Len(b)
          /\ a[i] < b[i]
          /\ \A j \in 1..(i - 1) : a[j] = b[j]
    \/ /\ Len(a) < Len(b)
       /\ \A j \in 1..Len(a) : a[j] = b[j]

-----------------------------------------------------------------------------
(* Bearer tokens over time: users register, log in, are renamed and        *)
(* deleted while the clock runs, and every bearer-protected operation is   *)
(* tried with every token a client can present.                            *)

OneReport == {ReportCreateBody(Point(0, 0), Cafe, 1, "1")}
OneVibe == {[place_name |-> Cafe, decibel_level |-> 55, crowd_status |-> 2,
             vibe_tags |-> <<"quiet">>, user_id |-> 1]}
OtherVibe == {[place_name |-> Bar, decibel_level |-> 55, crowd_status |-> 2,
               vibe_tags |-> <<"quiet">>, user_id |-> 1]}
SomeForms == {[name |-> Unset, bio |-> Unset, file |-> FALSE],
              [name |-> "Al", bio |-> "hi", file |-> TRUE]}

OnlyAlice == {u \in PlainUsers : u.username = "alice"}

NextAuth ==
    \/ Tick({ACCESS_TOKEN_EXPIRE_MINUTES + 1})
    \/ Register(OnlyAlice)
    \/ Login({"alice"}, {"secret1"})
    \/ GetMe(Presentable)
    \/ UpdateMe(Presentable, SomeForms, {"none"})
    \/ SubmitReport(Presentable, OneReport, {"none"})
    \/ DeleteReport(Presentable, {"none"})
    \/ CreateVibe(Presentable, OneVibe)
    \/ UpdateVibe(Presentable, OtherVibe)
    \/ DeleteVibe(Presentable)

SpecAuth == Init /\ [][NextAuth]_vars

NextTokens ==
    \/ Tick(TickSteps)
    \/ Register(OnlyAlice)
    \/ Login({"alice"}, Passwords)
    \/ UpdateUser(Renames)
    \/ DeleteUser
    \/ GetMe(Presentable)
    \/ DeleteVibe(Presentable)

SpecTokens == Init /\ [][NextTokens]_vars

\* The operations that take a bearer token
BearerOps == {"submit_report", "delete_report", "create_vibe", "update_vibe",
              "delete_vibe", "get_me", "update_me"}

\* The last request was a bearer-protected one carrying a token login issued
WithIssuedToken == request.op \in BearerOps /\ request.token \in issued

\* What a request carrying a token that is no JWT at all is answered
AsForGarbage ==
    Response(get_current_user(Garbage, users, now).status, NULL, NoRows)

\* C8: a token from login expires 7 days after it was issued; before that
\* instant it verifies, in decode_access_token and at every operation that
\* takes it; after it, it fails, and the failure is the one a malformed or a
\* wrongly signed token meets, in decode_access_token and in the response.
C8_TokenLifetime ==
    /\ (request.op = "login" /\ response.status = 200)
          => \E token \in issued : /\ token.sub = request.body.username
                                   /\ token.exp = now + 7 * 24 * 60
    /\ \A token \in issued :
          /\ now < token.exp
                => decode_access_token(token, now) =
                      [raised |-> None, sub |-> token.sub]
          /\ now > token.exp
                => /\ decode_access_token(token, now).raised # None
                   /\ decode_access_token(token, now) =
                         decode_access_token(Garbage, now)
                   /\ decode_access_token(token, now) =
                         decode_access_token(Forged(token.sub, now), now)
    /\ WithIssuedToken =>
          /\ now < request.token.exp => response # AsForGarbage
          /\ now > request.token.exp => response = AsForGarbage
    /\ (request.op \in BearerOps /\ request.token = Forged("alice", now))
          => response = AsForGarbage

C8_Witness ==
    /\ WithIssuedToken
    /\ request.op = "get_me"
    /\ now > request.token.exp
    /\ \E u \in users : u.username = request.token.sub

\* A token that is missing, malformed, wrongly signed or expired at clock t
BadToken(token, t) ==
    \/ token.kind # "jwt"
    \/ token.key # SECRET_KEY
    \/ token.exp < t

\* C9 (as claimed): a bearer-protected operation called with a missing,
\* invalid or expired token answers 401 and changes no stored user, report
\* or vibe.
C9_BadTokenIs401 ==
    [][(request'.op \in BearerOps /\ BadToken(request'.token, now))
          => /\ response'.status = 401
             /\ UNCHANGED store]_vars

\* The last request carried a token that verifies, whose subject is no
\* user's username any more
SubjectGone ==
    /\ WithIssuedToken
    /\ now <= request.token.exp
    /\ \A u \in users : u.username # request.token.sub

\* C10 (as claimed): such a request fails with 401.
C10_GoneIs401 == SubjectGone => response.status = 401

\* C10 (amended): such a request fails with 404.
C10_GoneIs404 == SubjectGone => response.status = 404

C10_Witness ==
    /\ SubjectGone
    /\ request.op = "delete_vibe"
    /\ users # {}
    /\ response.status = 404

-----------------------------------------------------------------------------
(* The whole API, each operation with one request body, one user who can   *)
(* log in and one who cannot                                               *)

OneForm == {[name |-> "Al", bio |-> Unset, file |-> FALSE]}

OneQuery == {[lat |-> 0, lon |-> 0, radius_km |-> 1]}

OneName == {[NothingSet EXCEPT !.name = "Al"]}

NextWhole ==
    \/ Register(OnlyAlice)
    \/ Login({"alice"}, {"secret1"})
    \/ GetMe(issued)
    \/ UpdateMe(issued, OneForm, {"none"})
    \/ CreateUser(OnlyBob)
    \/ UpdateUser(OneName)
    \/ DeleteUser
    \/ SubmitReport(issued, OneReport, {"none"})
    \/ GetNearby(OneQuery, {"none"})
    \/ DeleteReport(Bearers, {"none"})
    \/ CreateVibe(issued, OneVibe)
    \/ UpdateVibe(issued, OtherVibe)
    \/ DeleteVibe(issued)

SpecWhole == Init /\ [][NextWhole]_vars

\* C16: in every step, a stored report either stays as it is, or it goes
\* and the step is a delete_report of its id, answered 200, whose resolved
\* user is the report's owner; no id is given to a report twice.
C16_ReportsImmutable ==
    [][\A r \in reports :
          \/ r \in reports'
          \/ /\ \A q \in reports' : q.id # r.id
             /\ request'.op = "delete_report"
             /\ request'.id = r.id
             /\ response'.status = 200
             /\ r.user_id = IntToVarchar(response'.uid)]_vars

\* A report has outlived its owner and another user's attempt to delete it
C16_Witness ==
    /\ request.op = "delete_report"
    /\ response.status = 403
    /\ users # {}
    /\ \E r \in reports :
          /\ r.id = request.id
          /\ \A u \in users : r.user_id # IntToVarchar(u.id)

-----------------------------------------------------------------------------
(* Profiles: two users update their own profiles with every form           *)

NextProfile ==
    \/ Register(PlainUsers)
    \/ Login(Usernames, {"secret1"})
    \/ UpdateMe(Bearers, ProfileForms, ProfileFaults)

SpecProfile == Init /\ [][NextProfile]_vars

\* The form supplies none of name, bio and a file
SuppliesNothing(form) ==
    form.name = Unset /\ form.bio = Unset /\ ~form.file

\* C18: a PUT /api/auth/me that supplies nothing answers 400 and changes no
\* user; one that supplies something changes no other user, and of the
\* requester only name, bio and avatar_url, each only if supplied; when it
\* answers 200 the supplied name and bio are the stored ones.
C18_ProfileUpdateFrame ==
    [][(request'.op = "update_me" /\ response'.uid # NULL) =>
          LET form == request'.body
              before == UserById(users, response'.uid)
              after == UserById(users', response'.uid)
          IN  IF SuppliesNothing(form)
              THEN response'.status = 400 /\ users' = users
              ELSE /\ users' \ {after} = users \ {before}
                   /\ after.id = before.id
                   /\ after.username = before.username
                   /\ after.email = before.email
                   /\ after.password_hash = before.password_hash
                   /\ form.name = Unset => after.name = before.name
                   /\ form.bio = Unset => after.bio = before.bio
                   /\ ~form.file => after.avatar_url = before.avatar_url
                   /\ response'.status = 200 =>
                        /\ form.name # Unset => after.name = form.name
                        /\ form.bio # Unset => after.bio = form.bio
                        /\ form.file => after.avatar_url # None]_vars

C18_Witness ==
    /\ request.op = "update_me"
    /\ response.status = 200
    /\ request.body.name = "Al"
    /\ request.body.bio = Unset
    /\ ~request.body.file
    /\ Cardinality(users) = 2
    /\ \E u \in users : /\ u.id = response.uid
                         /\ u.bio = "hi"
                         /\ u.avatar_url # None

-----------------------------------------------------------------------------
(* Vibes: two users create, update and delete vibes; the body of an update *)
(* names either user as the vibe's user_id                                 *)

RenamedVibes == {v \in VibeCreateBodies : v.place_name = Bar}

NextVibes ==
    \/ Register(PlainUsers)
    \/ Login(Usernames, {"secret1"})
    \/ DeleteUser
    \/ CreateVibe(Bearers, OneVibe)
    \/ UpdateVibe(Bearers, RenamedVibes)
    \/ DeleteVibe(Bearers)

SpecVibes == Init /\ [][NextVibes]_vars

\* What update_vibe may write of a vibe, and its creation time
SameContent(v, w) ==
    /\ w.place_name = v.place_name
    /\ w.decibel_level = v.decibel_level
    /\ w.crowd_status = v.crowd_status
    /\ w.vibe_tags = v.vibe_tags
    /\ w.timestamp = v.timestamp

-----------------------------------------------------------------------------
(* Store and file failures: a user submits and deletes reports and updates *)
(* the profile, and any store or file call of a request may raise          *)

NextFaults ==
    \/ Register(OnlyAlice)
    \/ Login({"alice"}, {"secret1"})
    \/ SubmitReport(issued, OneReport, StoreFaults)
    \/ DeleteReport(issued, StoreFaults)
    \/ UpdateMe(issued, ProfileForms, ProfileFaults)

SpecFaults == Init /\ [][NextFaults]_vars

\* C21: a POST /api/reports/, DELETE /api/reports/{id} or PUT /api/auth/me
\* answered 500 has added or removed no report, changed no user and left
\* no avatar file written.
C21_NoPartialEffect ==
    [][(request'.op \in {"submit_report", "delete_report", "update_me"}
           /\ response'.status = 500) =>
          (reports' = reports /\ users' = users /\ uploads' = uploads)]_vars

-----------------------------------------------------------------------------
(* Handlers step by step.  A handler gives way to others at each store     *)
(* call (an await, or a thread switch for the handlers run in the thread   *)
(* pool), so between its SELECT and its commit other requests' commits     *)
(* take effect.  A statement or a commit is one step of the store.         *)

Started(op, token, id, body) ==
    [NotRunning EXCEPT !.op = op, !.pc = "selected", !.token = token,
                       !.id = id, !.body = body]

Finished(h, status) == [inflight[h] EXCEPT !.pc = "done", !.status = status]

\* register_user to its first await: validation of the body, then
\* SELECT ... WHERE username = :username
register_user_select(h, user_data) ==
    /\ inflight[h].pc = "idle"
    /\ IF PasswordLength(user_data.password) < PasswordMinLength
       THEN /\ inflight' = [inflight EXCEPT ![h] =
                    [Started("register", NoToken, NULL, user_data)
                        EXCEPT !.pc = "done", !.status = 422]]
            /\ request' = Request("register", NoToken, NULL, user_data)
            /\ response' = Response(422, NULL, NoRows)
       ELSE /\ inflight' = [inflight EXCEPT ![h] =
                    [Started("register", NoToken, NULL, user_data)
                        EXCEPT !.seen_user =
                            UserByName(users, user_data.username)]]
            /\ UNCHANGED <<request, response>>
    /\ UNCHANGED <<users, reports, vibes, next_user_id, next_report_id,
                   next_vibe_id, now, uploads,
                   issued, issued_to>>

\* register_user from the SELECT's result to the response: the 400 for a
\* username that was seen, or session.add, commit (the INSERT, which the
\* store's UNIQUE constraints can refuse) and the 400 for IntegrityError
register_user_commit(h) ==
    /\ inflight[h].op = "register"
    /\ inflight[h].pc = "selected"
    /\ LET user_data == inflight[h].body IN
       /\ request' = Request("register", NoToken, NULL, user_data)
       /\ IF inflight[h].seen_user # NoUser
          THEN /\ response' = Response(400, NULL, NoRows)
               /\ inflight' = [inflight EXCEPT ![h] = Finished(h, 400)]
               /\ UNCHANGED <<users, next_user_id>>
          ELSE LET new_user == NewUser(next_user_id, user_data,
                                       hash_password(user_data.password))
               IN  /\ next_user_id <= MaxUserId
                   /\ next_user_id' = next_user_id + 1
                   /\ IF UniqueUsers(users \cup {new_user})
                      THEN /\ users' = users \cup {new_user}
                           /\ response' = Response(200, new_user.id, NoRows)
                           /\ inflight' =
                                [inflight EXCEPT ![h] = Finished(h, 200)]
                      ELSE /\ users' = users
                           /\ response' = Response(400, NULL, NoRows)
                           /\ inflight' =
                                [inflight EXCEPT ![h] = Finished(h, 400)]
    /\ UNCHANGED <<reports, vibes, next_report_id, next_vibe_id, now,
                   uploads,
                   issued, issued_to>>

\* The response has gone out; the handler takes the next request
respond(h) ==
    /\ inflight[h].pc = "done"
    /\ inflight' = [inflight EXCEPT ![h] = NotRunning]
    /\ UNCHANGED <<users, reports, vibes, next_user_id, next_report_id,
                   next_vibe_id, now, uploads, request, response,
                   issued, issued_to>>

RegisterSelect(bodies) ==
    \E h \in Handlers, user_data \in bodies : register_user_select(h, user_data)

RegisterCommit == \E h \in Handlers : register_user_commit(h)

Respond == \E h \in Handlers : respond(h)

-----------------------------------------------------------------------------
(* Registrations racing for a username or an email address                 *)

RacingUsers ==
    {[username |-> "alice", password |-> "secret1", email |-> "a@x.io",
      name |-> None, avatar_url |-> None, bio |-> None],
     [username |-> "alice", password |-> "secret1", email |-> None,
      name |-> "Al", avatar_url |-> None, bio |-> None],
     [username |-> "bob", password |-> "secret1", email |-> "a@x.io",
      name |-> None, avatar_url |-> None, bio |-> None]}

NextRegister ==
    \/ RegisterSelect(RacingUsers)
    \/ RegisterCommit
    \/ Respond

SpecRegister == Init /\ [][NextRegister]_vars

\* A registration reaches its commit in this step
Registering(h) ==
    /\ inflight[h].op = "register"
    /\ inflight[h].pc = "selected"
    /\ inflight'[h].pc = "done"

\* A stored user has the username or the email address of the body
Taken(user_data) ==
    \E u \in users : \/ u.username = user_data.username
                     \/ user_data.email # None /\ u.email = user_data.email

\* No user with another username has the email address of either body
OnlyRivals(a, b) ==
    \A u \in users :
        u.username # a.username => u.email \notin ({a.email, b.email} \ {None})

\* C11: a registration whose username or email address a stored user has
\* answers 400, adds no user and changes none; one whose username and email
\* address are free adds the user; and of two registrations for one
\* username that both found it free, not both add a user, and exactly one
\* does unless a user with another username holds their email address.
C11_DuplicateRegistration ==
    /\ [][\A h \in Handlers :
            Registering(h) =>
                IF Taken(inflight[h].body)
                THEN /\ inflight'[h].status = 400
                     /\ response'.status = 400
                     /\ users' = users
                ELSE /\ inflight'[h].status = 200
                     /\ \E u \in users' \ users :
                           /\ u.username = inflight[h].body.username
                           /\ users' = users \cup {u}]_vars
    /\ [](\A h, g \in Handlers :
            (/\ h # g
             /\ inflight[h].op = "register" /\ inflight[g].op = "register"
             /\ inflight[h].pc = "done" /\ inflight[g].pc = "done"
             /\ inflight[h].seen_user = NoUser
             /\ inflight[g].seen_user = NoUser
             /\ inflight[h].body.username = inflight[g].body.username)
                => /\ {inflight[h].status, inflight[g].status} # {200}
                   /\ OnlyRivals(inflight[h].body, inflight[g].body)
                         => {inflight[h].status, inflight[g].status}
                               = {200, 400})

C11_Witness ==
    /\ inflight["first"].op = "register" /\ inflight["first"].pc = "done"
    /\ inflight["second"].op = "register" /\ inflight["second"].pc = "done"
    /\ inflight["first"].seen_user = NoUser
    /\ inflight["second"].seen_user = NoUser
    /\ inflight["first"].body.username = inflight["second"].body.username
    /\ inflight["first"].body # inflight["second"].body
    /\ inflight["first"].status = 400
    /\ Cardinality(users) = 1

-----------------------------------------------------------------------------
(* app/routers/users.py, step by step                                      *)

\* create_user to the result of its SELECT by username
create_user_select(h, user_data) ==
    /\ inflight[h].pc = "idle"
    /\ IF PasswordLength(user_data.password) < PasswordMinLength
       THEN /\ inflight' = [inflight EXCEPT ![h] =
                    [Started("create_user", NoToken, NULL, user_data)
                        EXCEPT !.pc = "done", !.status = 422]]
            /\ request' = Request("create_user", NoToken, NULL, user_data)
            /\ response' = Response(422, NULL, NoRows)
       ELSE /\ inflight' = [inflight EXCEPT ![h] =
                    [Started("create_user", NoToken, NULL, user_data)
                        EXCEPT !.seen_user =
                            UserByName(users, user_data.username)]]
            /\ UNCHANGED <<request, response>>
    /\ UNCHANGED <<users, reports, vibes, next_user_id, next_report_id,
                   next_vibe_id, now, uploads,
                   issued, issued_to>>

\* create_user from there: the 400, or session.add and commit, whose
\* IntegrityError nothing catches
create_user_commit(h) ==
    /\ inflight[h].op = "create_user"
    /\ inflight[h].pc = "selected"
    /\ LET user_data == inflight[h].body IN
       /\ request' = Request("create_user", NoToken, NULL, user_data)
       /\ IF inflight[h].seen_user # NoUser
          THEN /\ response' = Response(400, NULL, NoRows)
               /\ inflight' = [inflight EXCEPT ![h] = Finished(h, 400)]
               /\ UNCHANGED <<users, next_user_id>>
          ELSE LET new_user == NewUser(next_user_id, user_data,
                                       NotAHash(user_data.password))
               IN  /\ next_user_id <= MaxUserId
                   /\ next_user_id' = next_user_id + 1
                   /\ IF UniqueUsers(users \cup {new_user})
                      THEN /\ users' = users \cup {new_user}
                           /\ response' = Response(200, new_user.id, NoRows)
                           /\ inflight' =
                                [inflight EXCEPT ![h] = Finished(h, 200)]
                      ELSE /\ users' = users
                           /\ response' = Response(500, NULL, NoRows)
                           /\ inflight' =
                                [inflight EXCEPT ![h] = Finished(h, 500)]
    /\ UNCHANGED <<reports, vibes, next_report_id, next_vibe_id, now,
                   uploads,
                   issued, issued_to>>

\* update_user to the result of session.get(User, user_id)
update_user_select(h, user_id, user_data) ==
    /\ inflight[h].pc = "idle"
    /\ inflight' = [inflight EXCEPT ![h] =
            [Started("update_user", NoToken, user_id, user_data)
                EXCEPT !.seen_user = UserById(users, user_id)]]
    /\ UNCHANGED <<users, reports, vibes, next_user_id, next_report_id,
                   next_vibe_id, now, uploads, request, response,
                   issued, issued_to>>

\* The columns the flush writes: the attributes set to another value than
\* the one that was loaded
Dirty(loaded, update_fields) ==
    {f \in DOMAIN update_fields :
        update_fields[f] # Unset /\ update_fields[f] # loaded[f]}

\* update_user from there: the 404, the 400, or the commit: an UPDATE of
\* the dirty columns of the row with the loaded id, which fails when the
\* row is gone or a UNIQUE constraint refuses it (neither is caught)
update_user_commit(h) ==
    /\ inflight[h].op = "update_user"
    /\ inflight[h].pc = "selected"
    /\ LET user_data == inflight[h].body
           user == inflight[h].seen_user
           row == UserById(users, user.id)
           updated == [f \in DOMAIN row |->
                          IF f \in Dirty(user, user_data)
                          THEN user_data[f] ELSE row[f]]
           U == (users \ {row}) \cup {updated}
           status == IF user = NoUser THEN 404
                     ELSE IF user_data = NothingSet THEN 400
                     ELSE IF row = NoUser THEN 500
                     ELSE IF UniqueUsers(U) THEN 200
                     ELSE 500
       IN  /\ request' = Request("update_user", NoToken, inflight[h].id,
                                 user_data)
           /\ response' = Response(status,
                                  IF status = 200 THEN user.id ELSE NULL,
                                  NoRows)
           /\ users' = IF status = 200 THEN U ELSE users
           /\ inflight' = [inflight EXCEPT ![h] = Finished(h, status)]
    /\ UNCHANGED <<reports, vibes, next_user_id, next_report_id, next_vibe_id,
                   now, uploads,
                   issued, issued_to>>

CreateUserSelect(bodies) ==
    \E h \in Handlers, user_data \in bodies : create_user_select(h, user_data)

CreateUserCommit == \E h \in Handlers : create_user_commit(h)

UpdateUserSelect(bodies) ==
    \E h \in Handlers, id \in 1..MaxUserId, user_data \in bodies :
        update_user_select(h, id, user_data)

UpdateUserCommit == \E h \in Handlers : update_user_commit(h)

-----------------------------------------------------------------------------
(* Usernames under registrations, creations and renames that interleave    *)

NamesTo == {[NothingSet EXCEPT !.username = u] : u \in Usernames}

NextUsers ==
    \/ RegisterSelect(OnlyAlice)
    \/ RegisterCommit
    \/ CreateUserSelect(PlainUsers)
    \/ CreateUserCommit
    \/ UpdateUserSelect(NamesTo)
    \/ UpdateUserCommit
    \/ Respond

SpecUsers == Init /\ [][NextUsers]_vars

\* C12: no two stored users have the same username.
C12_UsernamesUnique ==
    \A u, v \in users : u # v => u.username # v.username

\* A rename and a creation raced for a username, and the store refused one
C12_Witness ==
    /\ Cardinality(users) = 2
    /\ \E h, g \in Handlers :
          /\ inflight[h].op = "update_user"
          /\ inflight[h].status = 500
          /\ inflight[g].op = "create_user"
          /\ inflight[g].status = 200
          /\ inflight[g].body.username = inflight[h].body.username
          /\ inflight[g].seen_user = NoUser

-----------------------------------------------------------------------------
(* app/routers/reports.py, step by step                                    *)

\* delete_report to its first await: the get_current_user dependency, then
\* SELECT user_id FROM report WHERE id = :rid
delete_report_select(h, token, report_id) ==
    /\ inflight[h].pc = "idle"
    /\ LET auth == get_current_user(token, users, now) IN
       IF auth.status # 200
       THEN /\ inflight' = [inflight EXCEPT ![h] =
                    [Started("delete_report", token, report_id, NoBody)
                        EXCEPT !.pc = "done", !.status = auth.status]]
            /\ request' = Request("delete_report", token, report_id, NoBody)
            /\ response' = Response(auth.status, NULL, NoRows)
       ELSE /\ inflight' = [inflight EXCEPT ![h] =
                    [Started("delete_report", token, report_id, NoBody)
                        EXCEPT !.current_user = auth.user,
                               !.seen_rows = ReportById(reports, report_id)]]
            /\ UNCHANGED <<request, response>>
    /\ UNCHANGED <<users, reports, vibes, next_user_id, next_report_id,
                   next_vibe_id, now, uploads,
                   issued, issued_to>>

\* delete_report from the SELECT's result to the response: the 404 for no
\* row, the 403 of the owner check, or DELETE FROM report WHERE id = :rid
\* and the commit
delete_report_commit(h) ==
    /\ inflight[h].op = "delete_report"
    /\ inflight[h].pc = "selected"
    /\ LET current_user == inflight[h].current_user
           found == inflight[h].seen_rows
           report_id == inflight[h].id
       IN  /\ request' = Request("delete_report", inflight[h].token,
                                 report_id, NoBody)
           /\ IF found = {}
              THEN /\ response' = Response(404, current_user.id, NoRows)
                   /\ inflight' = [inflight EXCEPT ![h] = Finished(h, 404)]
                   /\ reports' = reports
              ELSE IF \E owner_row \in found : NotOwner(owner_row, current_user)
              THEN /\ response' = Response(403, current_user.id, NoRows)
                   /\ inflight' = [inflight EXCEPT ![h] = Finished(h, 403)]
                   /\ reports' = reports
              ELSE /\ response' = Response(200, current_user.id, NoRows)
                   /\ inflight' = [inflight EXCEPT ![h] = Finished(h, 200)]
                   /\ reports' = reports \ ReportById(reports, report_id)
    /\ UNCHANGED <<users, vibes, next_user_id, next_report_id, next_vibe_id,
                   now, uploads,
                   issued, issued_to>>

DeleteReportSelect(tokens) ==
    \E h \in Handlers, token \in tokens, id \in 1..MaxReportId :
        delete_report_select(h, token, id)

DeleteReportCommit == \E h \in Handlers : delete_report_commit(h)

-----------------------------------------------------------------------------
(* Deletions racing for a report                                           *)

NextDeletes ==
    \/ Register(PlainUsers)
    \/ Login(Usernames, {"secret1"})
    \/ SubmitReport(Bearers, OneReport, {"none"})
    \/ DeleteReportSelect(Bearers)
    \/ DeleteReportCommit
    \/ Respond

SpecDeletes == Init /\ [][NextDeletes]_vars

\* Handler h is between delete_report's ownership lookup and its deletion
Deleting(h) ==
    inflight[h].op = "delete_report" /\ inflight[h].pc = "selected"

\* Handler h has answered a delete of the report by the user its SELECT
\* showed as the report's owner
OwnerDeleted(h, report_id) ==
    /\ inflight[h].op = "delete_report"
    /\ inflight[h].pc = "done"
    /\ inflight[h].id = report_id
    /\ \E owner_row \in inflight[h].seen_rows :
          owner_row.user_id = IntToVarchar(inflight[h].current_user.id)

\* C20: while a delete is between its ownership lookup and its deletion no
\* other request changes the store, and of two concurrent deletes of one
\* report by its owner one answers 200 and the other 404.
C20_AtomicDelete ==
    /\ [][(\E h \in Handlers : Deleting(h) /\ inflight'[h] = inflight[h]) =>
             (reports' = reports /\ users' = users)]_vars
    /\ [](\A id \in 1..MaxReportId :
             (OwnerDeleted("first", id) /\ OwnerDeleted("second", id)) =>
                {inflight[h].status : h \in Handlers} = {200, 404})

-----------------------------------------------------------------------------
(* Whom a token stands for: users register, log in, are renamed and are    *)
(* deleted, and every token is followed from the login that issued it      *)

NextIdentity ==
    \/ Register(PlainUsers)
    \/ LoginFollowed(Usernames, {"secret1"})
    \/ UpdateUser(NamesTo)
    \/ DeleteUser
    \/ GetMe(issued)

SpecIdentity == Init /\ [][NextIdentity]_vars

\* C22: a token that login issued to a user resolves, in get_current_user
\* of either module, to the user with that id or fails.
C22_TokenKeepsIdentity ==
    \A e \in issued_to :
        /\ LET auth == get_current_user(e.token, users, now) IN
           auth.status = 200 => auth.user.id = e.id
        /\ LET auth == auth_get_current_user(e.token, users, now) IN
           auth.status = 200 => auth.user.id = e.id

=============================================================================
